---- MODULE Spec2Model ----
(***************************************************************************)
(* PDF Numbering Tool (numbering_tool.py): the interactive batch driver    *)
(* main(), the file selector find_all_pdfs_with_selection(), the sort key  *)
(* extract_prefix_sort_key() and the numbering loop of process_pdf().      *)
(*                                                                         *)
(* Strings are sequences of one-character strings, so that strip(),        *)
(* upper(), lower(), split(), isdigit(), isalpha() and int() are computed  *)
(* character by character as Python computes them.                         *)
(***************************************************************************)
EXTENDS Integers, Sequences, FiniteSets, TLC

(* ------------------------------ bounds -------------------------------- *)
\* most *.pdf files the input folder holds
MaxFiles == 4
\* most pages one document has
MaxPages == 2
\* longest line typed at the file-selection and numbering-mode prompts
MaxInputLen == 3
\* longest line typed at the starting-number prompt
MaxStartLen == 1
\* largest start_number process_pdf is called with on its own
MaxUnitStart == 3

(* ---------------------------- characters ------------------------------ *)
UpperCase == << "A", "B", "C", "D", "E", "F", "G", "H", "I", "J", "K", "L", "M",
                "N", "O", "P", "Q", "R", "S", "T", "U", "V", "W", "X", "Y", "Z" >>
LowerCase == << "a", "b", "c", "d", "e", "f", "g", "h", "i", "j", "k", "l", "m",
                "n", "o", "p", "q", "r", "s", "t", "u", "v", "w", "x", "y", "z" >>
DigitChars == << "0", "1", "2", "3", "4", "5", "6", "7", "8", "9" >>

\* the characters of the model in ascending code point order
CodeOrder == << " ", "#", "+", "-" >> \o DigitChars \o UpperCase
               \o << "_" >> \o LowerCase

Range(f) == { f[i] : i \in DOMAIN f }
IndexOf(c, seq) == CHOOSE i \in DOMAIN seq : seq[i] = c

\* ord(c), up to an order-preserving renumbering
Ord(c) == IndexOf(c, CodeOrder)

IsDigitChar(c) == c \in Range(DigitChars)
IsAlphaChar(c) == c \in Range(UpperCase) \cup Range(LowerCase)
IsSpaceChar(c) == c = " "
DigitValue(c) == IndexOf(c, DigitChars) - 1

UpperChar(c) == IF c \in Range(LowerCase) THEN UpperCase[IndexOf(c, LowerCase)] ELSE c
LowerChar(c) == IF c \in Range(UpperCase) THEN LowerCase[IndexOf(c, UpperCase)] ELSE c

(* ------------------------------ str ----------------------------------- *)
\* str.upper()
Upper(s) == [i \in DOMAIN s |-> UpperChar(s[i])]
\* str.lower()
Lower(s) == [i \in DOMAIN s |-> LowerChar(s[i])]

RECURSIVE LStrip(_)
LStrip(s) == IF s # << >> /\ IsSpaceChar(Head(s)) THEN LStrip(Tail(s)) ELSE s

RECURSIVE RStrip(_)
RStrip(s) ==
    IF s # << >> /\ IsSpaceChar(s[Len(s)]) THEN RStrip(SubSeq(s, 1, Len(s) - 1)) ELSE s

\* str.strip()
Strip(s) == RStrip(LStrip(s))

\* str.isdigit()
IsDigit(s) == s # << >> /\ \A i \in DOMAIN s : IsDigitChar(s[i])

\* s.split(sep)[0]: the part of s before the first sep, all of s without one
RECURSIVE SplitFirst(_, _)
SplitFirst(s, sep) ==
    IF s = << >> \/ Head(s) = sep THEN << >>
    ELSE << Head(s) >> \o SplitFirst(Tail(s), sep)

\* s < t on str: lexicographic by code point, a proper prefix is smaller
RECURSIVE StrLess(_, _)
StrLess(s, t) ==
    IF t = << >> THEN FALSE
    ELSE IF s = << >> THEN TRUE
    ELSE IF Head(s) # Head(t) THEN Ord(Head(s)) < Ord(Head(t))
    ELSE StrLess(Tail(s), Tail(t))

\* the value of a string of decimal digits and single underscores
RECURSIVE DigitsValue(_, _)
DigitsValue(s, acc) ==
    IF s = << >> THEN acc
    ELSE IF Head(s) = "_" THEN DigitsValue(Tail(s), acc)
    ELSE DigitsValue(Tail(s), 10 * acc + DigitValue(Head(s)))

\* what int() accepts after the sign: digits, single underscores between them
IsIntBody(s) ==
    /\ s # << >>
    /\ \A i \in DOMAIN s : IsDigitChar(s[i]) \/ s[i] = "_"
    /\ IsDigitChar(s[1]) /\ IsDigitChar(s[Len(s)])
    /\ \A i \in 1..(Len(s) - 1) : ~(s[i] = "_" /\ s[i + 1] = "_")

\* int(s): [ok |-> FALSE] stands for ValueError
ParseInt(s) ==
    LET t == Strip(s)
        signed == t # << >> /\ Head(t) \in {"+", "-"}
        body == IF signed THEN Tail(t) ELSE t
    IN  IF IsIntBody(body)
        THEN [ok |-> TRUE,
              val |-> IF signed /\ Head(t) = "-" THEN 0 - DigitsValue(body, 0)
                      ELSE DigitsValue(body, 0)]
        ELSE [ok |-> FALSE, val |-> 0]

\* the lines over an alphabet of at most n characters
Lines(alphabet, n) == UNION { [1..k -> alphabet] : k \in 0..n }

(* --------------------------- environment ------------------------------ *)
\* filename stems (name without ".pdf") the input folder may hold
Stems == { << "2", "0", "2", "5", "1", "1", "0", "1", "_", "a" >>,
           << "B", "_", "r", "e", "p", "o", "r", "t" >>,
           << "2", "0", "2", "5", "1", "0", "3", "1" >>,
           << "m", "i", "s", "c" >>,
           << "9", "-", "x" >>,
           << "_", "z" >> }

\* characters typed at the file-selection prompt
InputAlphabet == { "A", "L", "l", "1", "3", "-", " " }
\* characters typed at the numbering-mode prompt
ModeAlphabet == { "1", "2", "3", " " }
\* characters typed at the starting-number prompt
StartAlphabet == { "0", "2", "-", " ", "x" }

\* every order in which glob() may list the files of a folder
Perms(S) == { p \in [1..Cardinality(S) -> S] : Range(p) = S }

(* ---------------------------- file order ------------------------------ *)
\* extract_prefix_sort_key(filename): <<rank, value>>
extract_prefix_sort_key(name) ==
    LET prefix == SplitFirst(SplitFirst(name, "_"), "-")
    IN  IF IsDigit(prefix) THEN << 0, DigitsValue(prefix, 0) >>
        ELSE IF prefix # << >> /\ IsAlphaChar(prefix[1]) THEN << 1, Lower(prefix) >>
        ELSE << 2, IF prefix # << >> THEN Lower(prefix) ELSE << >> >>

\* k1 < k2 on the key tuples: the first components decide unless equal
KeyLess(k1, k2) ==
    IF k1[1] # k2[1] THEN k1[1] < k2[1]
    ELSE IF k1[1] = 0 THEN k1[2] < k2[2]
    ELSE StrLess(k1[2], k2[2])

\* x goes before the first element that is greater: sorted() is stable
RECURSIVE InsertByKey(_, _)
InsertByKey(x, sorted) ==
    IF sorted = << >> THEN << x >>
    ELSE IF KeyLess(extract_prefix_sort_key(x), extract_prefix_sort_key(Head(sorted)))
         THEN << x >> \o sorted
         ELSE << Head(sorted) >> \o InsertByKey(x, Tail(sorted))

RECURSIVE SortFrom(_, _)
SortFrom(todo, sorted) ==
    IF todo = << >> THEN sorted
    ELSE SortFrom(Tail(todo), InsertByKey(Head(todo), sorted))

\* a plain sorted(pdf_files): by name, the key forgotten
RECURSIVE InsertByName(_, _)
InsertByName(x, sorted) ==
    IF sorted = << >> THEN << x >>
    ELSE IF StrLess(x, Head(sorted)) THEN << x >> \o sorted
    ELSE << Head(sorted) >> \o InsertByName(x, Tail(sorted))

RECURSIVE SortByNameFrom(_, _)
SortByNameFrom(todo, sorted) ==
    IF todo = << >> THEN sorted
    ELSE SortByNameFrom(Tail(todo), InsertByName(Head(todo), sorted))

SortedByName(files) == SortByNameFrom(files, << >>)

\* sorted(pdf_files, key=extract_prefix_sort_key)
SortedByKey(files) == SortFrom(files, << >>)

(* ----------------------------- state ---------------------------------- *)
VARIABLES
    pc,             \* where main() stands
    exit_code,      \* << >> while running, <<status>> once the process has ended
    fatal,          \* the fatal error that ended the run, "none" otherwise
    prompts,        \* the prompts issued through input() so far
    line,           \* the line input() returned and the code has not consumed yet
    pdf_files,      \* find_all_pdfs_with_selection: the sorted list of found files
    choice,         \* find_all_pdfs_with_selection: choice
    pdf_list,       \* main: the selected files
    mode,           \* main: mode, "" before it is set
    start_input,    \* main: start_input
    base_start,     \* main: base_start, 0 before it is set
    next_number,    \* main: next_number
    idx,            \* main: idx of the batch loop, 0 before the loop
    success_count,  \* main: success_count
    fail_count,     \* main: fail_count
    output,         \* the output folder: for every stem the state of <stem>_numbered.pdf
    runs,           \* the log: one record per call of process_pdf, with the
                    \* page count and the returned counter of a completed call
    summary         \* the logged batch summary, << >> before it is logged

vars == << pc, exit_code, fatal, prompts, line, pdf_files, choice, pdf_list, mode,
           start_input, base_start, next_number, idx, success_count, fail_count,
           output, runs, summary >>

Absent == [state |-> "absent", pages |-> << >>]

Init ==
    /\ pc = "load_config"
    /\ exit_code = << >>
    /\ fatal = "none"
    /\ prompts = {}
    /\ line = << >>
    /\ pdf_files = << >>
    /\ choice = << >>
    /\ pdf_list = << >>
    /\ mode = ""
    /\ start_input = << >>
    /\ base_start = 0
    /\ next_number = 0
    /\ idx = 0
    /\ success_count = 0
    /\ fail_count = 0
    /\ output = [s \in Stems |-> Absent]
    /\ runs = << >>
    /\ summary = << >>

(* --------------------------- process_pdf ------------------------------ *)
\* the label pair of a page
LabelPair(current_number) == << current_number, current_number + 1 >>

AdvanceByOne(current_number) == current_number + 1

\* current_number += 2
Advance(current_number) == current_number + 2

\* the page loop: fail_page is the page whose overlay or merge raises, 0 for none
RECURSIVE PageLoop(_, _, _, _, _)
PageLoop(current_number, page_index, total_pages, fail_page, pages) ==
    IF page_index > total_pages
    THEN [raised |-> FALSE, pages |-> pages, current_number |-> current_number]
    ELSE IF page_index = fail_page
    THEN [raised |-> TRUE, pages |-> pages,
          current_number |-> Advance(current_number)]
    ELSE PageLoop(Advance(current_number), page_index + 1, total_pages, fail_page,
                  Append(pages, LabelPair(current_number)))

\* the output file opened for writing before the pages are composited
process_pdf_eager(start_number, total_pages, fail_page, io) ==
    LET r == PageLoop(start_number, 1, total_pages, fail_page, << >>)
    IN  IF io = "unreadable" \/ io = "unwritable"
        THEN [raised |-> TRUE, written |-> FALSE, file |-> Absent,
              current_number |-> start_number]
        ELSE IF r.raised
        THEN [raised |-> TRUE, written |-> TRUE,
              file |-> [state |-> "partial", pages |-> r.pages],
              current_number |-> r.current_number]
        ELSE [raised |-> FALSE, written |-> TRUE,
              file |-> [state |-> "written", pages |-> r.pages],
              current_number |-> r.current_number]

\* process_pdf: io is what the file system does,
\*   "unreadable": PdfReader raises;  "unwritable": mkdir, open or write raises
\*   before anything is stored;  "ok" otherwise.
\* written: whether the output file was stored; file: what it then holds.
process_pdf(start_number, total_pages, fail_page, io) ==
    LET r == PageLoop(start_number, 1, total_pages, fail_page, << >>)
    IN  IF io = "unreadable"
        THEN [raised |-> TRUE, written |-> FALSE, file |-> Absent,
              current_number |-> start_number]
        ELSE IF r.raised \/ io = "unwritable"
        THEN [raised |-> TRUE, written |-> FALSE, file |-> Absent,
              current_number |-> r.current_number]
        ELSE [raised |-> FALSE, written |-> TRUE,
              file |-> [state |-> "written", pages |-> r.pages],
              current_number |-> r.current_number]

(* ------------------- find_all_pdfs_with_selection --------------------- *)
NeverSkipSelection(files) == FALSE

\* len(pdf_files) == 1: the file is returned without a prompt
SkipSelection(files) == Len(files) = 1

\* the except branch leaves selected_files as it was initialised
NarrowForgetful(ch, files) ==
    IF ch = << "A", "L", "L" >> \/ ch = << >> THEN files
    ELSE LET num == ParseInt(ch)
         IN  IF num.ok
             THEN IF 1 <= num.val /\ num.val <= Len(files)
                  THEN << files[num.val] >>
                  ELSE files
             ELSE << >>

\* selected_files from choice (already stripped and upper-cased)
Narrow(ch, files) ==
    IF ch = << "A", "L", "L" >> \/ ch = << >> THEN files
    ELSE LET num == ParseInt(ch)
         IN  IF num.ok
             THEN IF 1 <= num.val /\ num.val <= Len(files)
                  THEN << files[num.val] >>
                  ELSE files
             ELSE files

(* ------------------------------ main ---------------------------------- *)
ExitStatusAlwaysOne(error) == 1

\* the argument of sys.exit() for each fatal error
ExitStatus(error) == IF error = "OperatorInterrupt" THEN 0 ELSE 1

AcceptStartFromZero(value) == ~(value < 0)

\* the starting number passes the check "if base_start < 1: continue"
AcceptStart(value) == ~(value < 1)

StartNumberContinuous(m, base, next) == next

\* start_number of a document
StartNumber(m, base, next) == IF m = "1" THEN base ELSE next

CarryAlways(next, r) == r.current_number

\* next_number after a call of process_pdf: assigned only if it returned
Carry(next, r) == IF r.raised THEN next ELSE r.current_number

TallyForgetful(success, fail, raised) ==
    IF raised THEN << success, fail >> ELSE << success + 1, fail >>

\* << success_count, fail_count >> after a document
Tally(success, fail, raised) ==
    IF raised THEN << success, fail + 1 >> ELSE << success + 1, fail >>

\* what the log keeps of a call of process_pdf: the start, and for a call that
\* returned the page count and the counter returned
RunRecord(pdf_path, start_number, total_pages, r) ==
    [doc |-> pdf_path,
     start |-> start_number,
     ok |-> ~r.raised,
     total_pages |-> IF r.raised THEN 0 ELSE total_pages,
     returned |-> IF r.raised THEN << >> ELSE << r.current_number >>]

\* sys.exit() on a fatal error
Abort(error) ==
    /\ pc' = "exit"
    /\ exit_code' = << ExitStatus(error) >>
    /\ fatal' = error

\* load_config: the configuration file exists or the run ends
LoadConfig ==
    /\ pc = "load_config"
    /\ \E exists \in BOOLEAN :
         IF exists
         THEN pc' = "find_pdfs" /\ UNCHANGED << exit_code, fatal >>
         ELSE Abort("ConfigurationMissing")
    /\ UNCHANGED << prompts, line, pdf_files, choice, pdf_list, mode, start_input,
                    base_start, next_number, idx, success_count, fail_count,
                    output, runs, summary >>

\* find_all_pdfs_with_selection up to the prompt: glob, sort, single file
FindPdfs ==
    /\ pc = "find_pdfs"
    /\ \E exists \in BOOLEAN, found \in SUBSET Stems :
         /\ Cardinality(found) <= MaxFiles
         /\ \E listing \in Perms(found) :
              IF ~exists \/ listing = << >>
              THEN /\ Abort("InputMissing")
                   /\ UNCHANGED << pdf_files, pdf_list >>
              ELSE /\ pdf_files' = SortedByKey(listing)
                   /\ IF SkipSelection(pdf_files')
                      THEN pdf_list' = pdf_files' /\ pc' = "mode"
                      ELSE pdf_list' = pdf_list /\ pc' = "select_prompt"
                   /\ UNCHANGED << exit_code, fatal >>
    /\ UNCHANGED << prompts, line, choice, mode, start_input, base_start,
                    next_number, idx, success_count, fail_count, output, runs,
                    summary >>

\* choice = input(...).strip().upper()
SelectPrompt ==
    /\ pc = "select_prompt"
    /\ \E typed \in Lines(InputAlphabet, MaxInputLen) :
         /\ line' = typed
         /\ choice' = Upper(Strip(typed))
    /\ prompts' = prompts \cup {"select"}
    /\ pc' = "select_apply"
    /\ UNCHANGED << exit_code, fatal, pdf_files, pdf_list, mode, start_input,
                    base_start, next_number, idx, success_count, fail_count,
                    output, runs, summary >>

\* KeyboardInterrupt at the selection prompt
SelectInterrupt ==
    /\ pc = "select_prompt"
    /\ prompts' = prompts \cup {"select"}
    /\ Abort("OperatorInterrupt")
    /\ UNCHANGED << line, pdf_files, choice, pdf_list, mode, start_input,
                    base_start, next_number, idx, success_count, fail_count,
                    output, runs, summary >>

\* the rest of find_all_pdfs_with_selection: selected_files, return
SelectApply ==
    /\ pc = "select_apply"
    /\ pdf_list' = Narrow(choice, pdf_files)
    /\ line' = << >>
    /\ choice' = << >>
    /\ pc' = "mode"
    /\ UNCHANGED << exit_code, fatal, prompts, pdf_files, mode, start_input,
                    base_start, next_number, idx, success_count, fail_count,
                    output, runs, summary >>

\* one file: mode = "1" without a prompt
ModeAuto ==
    /\ pc = "mode"
    /\ Len(pdf_list) = 1
    /\ mode' = "1"
    /\ pc' = "start_prompt"
    /\ UNCHANGED << exit_code, fatal, prompts, line, pdf_files, choice, pdf_list,
                    start_input, base_start, next_number, idx, success_count,
                    fail_count, output, runs, summary >>

\* mode = input(...).strip(), anything but "1" and "2" is "1"
ModePrompt ==
    /\ pc = "mode"
    /\ Len(pdf_list) # 1
    /\ \E typed \in Lines(ModeAlphabet, MaxInputLen) :
         mode' = IF Strip(typed) = << "2" >> THEN "2" ELSE "1"
    /\ prompts' = prompts \cup {"mode"}
    /\ pc' = "start_prompt"
    /\ UNCHANGED << exit_code, fatal, line, pdf_files, choice, pdf_list,
                    start_input, base_start, next_number, idx, success_count,
                    fail_count, output, runs, summary >>

\* KeyboardInterrupt at the mode prompt
ModeInterrupt ==
    /\ pc = "mode"
    /\ Len(pdf_list) # 1
    /\ prompts' = prompts \cup {"mode"}
    /\ Abort("OperatorInterrupt")
    /\ UNCHANGED << line, pdf_files, choice, pdf_list, mode, start_input,
                    base_start, next_number, idx, success_count, fail_count,
                    output, runs, summary >>

\* start_input = input(...).strip()
StartPrompt ==
    /\ pc = "start_prompt"
    /\ \E typed \in Lines(StartAlphabet, MaxStartLen) :
         /\ line' = typed
         /\ start_input' = Strip(typed)
    /\ prompts' = prompts \cup {"start"}
    /\ pc' = "start_check"
    /\ UNCHANGED << exit_code, fatal, pdf_files, choice, pdf_list, mode,
                    base_start, next_number, idx, success_count, fail_count,
                    output, runs, summary >>

\* KeyboardInterrupt at the starting-number prompt
StartInterrupt ==
    /\ pc = "start_prompt"
    /\ prompts' = prompts \cup {"start"}
    /\ Abort("OperatorInterrupt")
    /\ UNCHANGED << line, pdf_files, choice, pdf_list, mode, start_input,
                    base_start, next_number, idx, success_count, fail_count,
                    output, runs, summary >>

\* base_start = int(start_input) if start_input else 1, the check, and on
\* break the initialisation of the batch loop
StartCheck ==
    /\ pc = "start_check"
    /\ LET parsed == IF start_input = << >> THEN [ok |-> TRUE, val |-> 1]
                     ELSE ParseInt(start_input)
       IN  IF ~parsed.ok
           THEN /\ pc' = "start_prompt"
                /\ UNCHANGED << base_start, next_number, idx >>
           ELSE /\ base_start' = parsed.val
                /\ IF AcceptStart(parsed.val)
                   THEN /\ next_number' = parsed.val
                        /\ idx' = 1
                        /\ pc' = "process"
                   ELSE /\ pc' = "start_prompt"
                        /\ UNCHANGED << next_number, idx >>
    /\ line' = << >>
    /\ start_input' = << >>
    /\ UNCHANGED << exit_code, fatal, prompts, pdf_files, choice, pdf_list, mode,
                    success_count, fail_count, output, runs, summary >>

\* one iteration of the batch loop: process_pdf on pdf_list[idx]
ProcessDocument ==
    /\ pc = "process"
    /\ idx <= Len(pdf_list)
    /\ \E total_pages \in 0..MaxPages,
          io \in {"ok", "unreadable", "unwritable"} :
         \E fail_page \in 0..total_pages :
            LET pdf_path == pdf_list[idx]
                start_number == StartNumber(mode, base_start, next_number)
                r == process_pdf(start_number, total_pages, fail_page, io)
                counts == Tally(success_count, fail_count, r.raised)
            IN  /\ next_number' = Carry(next_number, r)
                /\ success_count' = counts[1]
                /\ fail_count' = counts[2]
                /\ output' = IF r.written
                             THEN [output EXCEPT ![pdf_path] = r.file]
                             ELSE output
                /\ runs' = Append(runs, RunRecord(pdf_path, start_number, total_pages, r))
    /\ idx' = idx + 1
    /\ UNCHANGED << pc, exit_code, fatal, prompts, line, pdf_files, choice,
                    pdf_list, mode, start_input, base_start, summary >>

\* the loop is over: the summary is logged and main returns
Summary ==
    /\ pc = "process"
    /\ idx > Len(pdf_list)
    /\ summary' = << [success |-> success_count, fail |-> fail_count] >>
    /\ pc' = "done"
    /\ exit_code' = << 0 >>
    /\ UNCHANGED << fatal, prompts, line, pdf_files, choice, pdf_list, mode,
                    start_input, base_start, next_number, idx, success_count,
                    fail_count, output, runs >>

Next ==
    \/ LoadConfig
    \/ FindPdfs
    \/ SelectPrompt
    \/ SelectInterrupt
    \/ SelectApply
    \/ ModeAuto
    \/ ModePrompt
    \/ ModeInterrupt
    \/ StartPrompt
    \/ StartInterrupt
    \/ StartCheck
    \/ ProcessDocument
    \/ Summary

Spec == Init /\ [][Next]_vars

(* process_pdf called on its own: one document, any start_number >= 0 *)
UnitInit ==
    /\ pc = "call"
    /\ exit_code = << >>
    /\ fatal = "none"
    /\ prompts = {}
    /\ line = << >>
    /\ pdf_files = << >>
    /\ choice = << >>
    /\ \E pdf_path \in Stems : pdf_list = << pdf_path >>
    /\ mode = ""
    /\ start_input = << >>
    /\ base_start \in 0..MaxUnitStart
    /\ next_number = 0
    /\ idx = 0
    /\ success_count = 0
    /\ fail_count = 0
    /\ output = [s \in Stems |-> Absent]
    /\ runs = << >>
    /\ summary = << >>

\* process_pdf(pdf_list[0], ..., base_start, ...)
UnitCall ==
    /\ pc = "call"
    /\ \E total_pages \in 0..MaxPages, io \in {"ok", "unreadable", "unwritable"} :
         \E fail_page \in 0..total_pages :
            LET r == process_pdf(base_start, total_pages, fail_page, io)
            IN  /\ output' = IF r.written
                             THEN [output EXCEPT ![pdf_list[1]] = r.file]
                             ELSE output
                /\ runs' = << RunRecord(pdf_list[1], base_start, total_pages, r) >>
    /\ pc' = "returned"
    /\ UNCHANGED << exit_code, fatal, prompts, line, pdf_files, choice, pdf_list,
                    mode, start_input, base_start, next_number, idx, success_count,
                    fail_count, summary >>

UnitNext == UnitCall

UnitSpec == UnitInit /\ [][UnitNext]_vars

TypeOK ==
    /\ pc \in {"load_config", "find_pdfs", "select_prompt", "select_apply", "mode",
               "start_prompt", "start_check", "process", "done", "exit",
               "call", "returned"}
    /\ exit_code \in {<< >>, << 0 >>, << 1 >>}
    /\ mode \in {"", "1", "2"}
    /\ idx \in 0..(MaxFiles + 1)

(* ======================= properties of the run ======================== *)
Processing == pc \in {"process", "done"}

Written(s) == output[s].state = "written"

RECURSIVE PagesOfRuns(_)
\* the pages of the completed calls among rs
PagesOfRuns(rs) ==
    IF rs = << >> THEN 0
    ELSE PagesOfRuns(Tail(rs)) + (IF Head(rs).ok THEN Head(rs).total_pages ELSE 0)

RECURSIVE LabelsOfRuns(_)
\* the labels stamped by the completed calls among rs, in the order stamped
LabelsOfRuns(rs) ==
    IF rs = << >> THEN << >>
    ELSE (IF Head(rs).ok THEN output[Head(rs).doc].pages ELSE << >>)
         \o LabelsOfRuns(Tail(rs))

RECURSIVE Flatten(_)
Flatten(pairs) ==
    IF pairs = << >> THEN << >> ELSE Head(pairs) \o Flatten(Tail(pairs))

(* C1: numbering one document from start s with n pages gives page i the   *)
(* pair (s + 2(i-1), s + 2(i-1) + 1), exactly n pairs, and returns s + 2n. *)
C1_Advance ==
    \A i \in DOMAIN runs :
        runs[i].ok =>
            LET s == runs[i].start
                n == runs[i].total_pages
                pages == output[runs[i].doc].pages
            IN  /\ Written(runs[i].doc)
                /\ Len(pages) = n
                /\ \A k \in 1..n : pages[k] = << s + 2 * (k - 1), s + 2 * (k - 1) + 1 >>
                /\ \A k \in 1..n : pages[k][2] = pages[k][1] + 1
                /\ \A k \in 1..(n - 1) : pages[k + 1][1] - pages[k][1] = 2
                /\ runs[i].returned = << s + 2 * n >>

\* two pages numbered from 0: (0,1), (2,3), and 4 returned
C1_Witness ==
    /\ pc = "returned"
    /\ runs[1].ok /\ runs[1].start = 0 /\ runs[1].total_pages = 2
    /\ output[runs[1].doc].pages = << << 0, 1 >>, << 2, 3 >> >>

(* C2: in a batch whose documents all succeed, reseed mode starts every    *)
(* document at the batch start value; continuous mode starts the first at  *)
(* the batch start value and every later one at the counter the previous   *)
(* document returned, the batch start plus twice the pages before it.      *)
C2_ModeIsolation ==
    (Processing /\ \A i \in DOMAIN runs : runs[i].ok) =>
        \A i \in DOMAIN runs :
            /\ mode = "1" => runs[i].start = base_start
            /\ runs[i].total_pages > 0 =>
                 output[runs[i].doc].pages[1][1] = runs[i].start
            /\ mode = "2" =>
                 /\ runs[i].start = base_start + 2 * PagesOfRuns(SubSeq(runs, 1, i - 1))
                 /\ i = 1 => runs[i].start = base_start
                 /\ i > 1 => << runs[i].start >> = runs[i - 1].returned

\* D1 of 2 pages, D2 of 1 page, batch start 1, continuous: D2 is labelled (5,6)
C2_Witness ==
    /\ mode = "2" /\ base_start = 1 /\ Len(runs) = 2
    /\ output[runs[1].doc].pages = << << 1, 2 >>, << 3, 4 >> >>
    /\ output[runs[2].doc].pages = << << 5, 6 >> >>

(* C3: a failing document never stops the batch: the selected documents    *)
(* are attempted once each in the selected order, every attempt counts as  *)
(* one success or one failure, and the summary reports the written and the *)
(* failed documents, which together are the selected ones.                 *)
C3_FailureIsolation ==
    /\ runs # << >> => Processing
    /\ Processing =>
         /\ Len(runs) = idx - 1
         /\ Len(runs) <= Len(pdf_list)
         /\ \A i \in DOMAIN runs : runs[i].doc = pdf_list[i]
         /\ success_count = Cardinality({ i \in DOMAIN runs : runs[i].ok })
         /\ fail_count = Cardinality({ i \in DOMAIN runs : ~runs[i].ok })
         /\ success_count = Cardinality({ s \in Stems : Written(s) })
    /\ pc = "done" =>
         /\ Len(runs) = Len(pdf_list)
         /\ summary = << [success |-> Cardinality({ s \in Stems : Written(s) }),
                         fail |-> Cardinality({ i \in DOMAIN runs : ~runs[i].ok })] >>
         /\ success_count + fail_count = Len(pdf_list)

\* D2 of three fails: D1 and D3 are written, the summary says 2 and 1
C3_Witness ==
    /\ pc = "done" /\ Len(pdf_list) = 3
    /\ runs[1].ok /\ ~runs[2].ok /\ runs[3].ok
    /\ Written(pdf_list[1]) /\ ~Written(pdf_list[2]) /\ Written(pdf_list[3])
    /\ summary = << [success |-> 2, fail |-> 1] >>

(* C4, as claimed: every fatal error (configuration missing, input         *)
(* missing, operator interrupt at a prompt) ends the process with a        *)
(* non-zero exit status, before any document is processed and without a    *)
(* summary.                                                                *)
C4_FatalNonZero ==
    fatal # "none" =>
        /\ pc = "exit"
        /\ exit_code # << >> /\ exit_code # << 0 >>
        /\ runs = << >>
        /\ summary = << >>

(* C4, amended: a missing configuration file and a missing or empty input  *)
(* folder end the process with exit status 1, an operator interrupt at the *)
(* selection, mode or starting-number prompt ends it with exit status 0;   *)
(* each before any document is processed and without a summary.            *)
C4_FatalExit ==
    /\ fatal # "none" =>
         /\ pc = "exit"
         /\ fatal \in {"ConfigurationMissing", "InputMissing"} => exit_code = << 1 >>
         /\ fatal = "OperatorInterrupt" => exit_code = << 0 >> /\ prompts # {}
         /\ runs = << >>
         /\ \A s \in Stems : output[s] = Absent
         /\ success_count = 0 /\ fail_count = 0
         /\ summary = << >>
    /\ pc = "exit" <=> fatal # "none"

C4_Witness ==
    /\ fatal = "OperatorInterrupt" /\ exit_code = << 0 >>
    /\ prompts = {"select", "mode", "start"}

\* the decimal numeral of k >= 0, as str(k) writes it
RECURSIVE Decimal(_)
Decimal(k) ==
    IF k < 10 THEN << DigitChars[k + 1] >>
    ELSE Decimal(k \div 10) \o << DigitChars[(k % 10) + 1] >>

RECURSIVE StripZeros(_)
StripZeros(s) ==
    IF Len(s) > 1 /\ Head(s) = "0" THEN StripZeros(Tail(s)) ELSE s

\* the typed line is a numeral of the integer k >= 0: surrounding blanks, an
\* optional plus sign and leading zeros apart, it is k written in decimal
Denotes(typed, k) ==
    LET t == Strip(typed)
        u == IF t # << >> /\ Head(t) = "+" THEN Tail(t) ELSE t
    IN  IsDigit(u) /\ StripZeros(u) = Decimal(k)

\* the typed line is ALL in any letter case, or empty, surrounding blanks apart
IsAll(typed) ==
    LET t == Strip(typed)
    IN  \/ t = << >>
        \/ /\ Len(t) = 3
           /\ t[1] \in {"A", "a"} /\ t[2] \in {"L", "l"} /\ t[3] \in {"L", "l"}

(* C5: with N >= 2 files found, the selection never aborts and never gives *)
(* an empty list: ALL (any case, blanks ignored) or an empty line gives    *)
(* the full sorted list, an integer k in 1..N gives the list of the k-th   *)
(* file alone, any other line gives the full sorted list.                  *)
C5_Selection ==
    [][pc = "select_apply" =>
         LET N == Len(pdf_files)
         IN  /\ N >= 2
             /\ pc' = "mode" /\ fatal' = "none"
             /\ pdf_files' = pdf_files
             /\ pdf_list' # << >>
             /\ IsAll(line) => pdf_list' = pdf_files
             /\ \A k \in 1..N : Denotes(line, k) => pdf_list' = << pdf_files[k] >>
             /\ (~IsAll(line) /\ \A k \in 1..N : ~Denotes(line, k))
                    => pdf_list' = pdf_files
             /\ \/ pdf_list' = pdf_files
                \/ \E k \in 1..N : pdf_list' = << pdf_files[k] >>
    ]_vars

C5_Witness ==
    /\ pc = "mode" /\ "select" \in prompts
    /\ Len(pdf_files) = 3
    /\ pdf_list = << pdf_files[3] >>

(* C6: when one file exists, neither the selection prompt nor the mode     *)
(* prompt is issued: the starting-number prompt is the only one read       *)
(* before processing, the mode is reseed and the document's first label is *)
(* the batch start value.                                                  *)
C6_SingleDocument ==
    Len(pdf_files) = 1 =>
        /\ prompts \subseteq {"start"}
        /\ pdf_list = pdf_files
        /\ Processing =>
             /\ prompts = {"start"}
             /\ mode = "1"
             /\ \A i \in DOMAIN runs :
                  /\ runs[i].start = base_start
                  /\ (runs[i].ok /\ runs[i].total_pages > 0)
                        => output[runs[i].doc].pages[1][1] = base_start

C6_Witness ==
    /\ pc = "done" /\ Len(pdf_files) = 1 /\ Len(runs) = 1
    /\ runs[1].ok /\ runs[1].total_pages = 2
    /\ output[pdf_files[1]].pages[1] = << 2, 3 >>

\* the part of the stem before the first "_" or "-"
PrefixOf(name) ==
    LET cuts == { i \in DOMAIN name : name[i] \in {"_", "-"} }
        first == IF cuts = {} THEN Len(name) + 1
                 ELSE CHOOSE i \in cuts : \A j \in cuts : i <= j
    IN  SubSeq(name, 1, first - 1)

RankOf(name) ==
    LET p == PrefixOf(name)
    IN  IF p # << >> /\ \A i \in DOMAIN p : IsDigitChar(p[i]) THEN 0
        ELSE IF p # << >> /\ IsAlphaChar(p[1]) THEN 1
        ELSE 2

\* name a may stand before name b in the processing order
MayPrecede(a, b) ==
    \/ RankOf(a) < RankOf(b)
    \/ /\ RankOf(a) = RankOf(b)
       /\ IF RankOf(a) = 0
          THEN DigitsValue(PrefixOf(a), 0) <= DigitsValue(PrefixOf(b), 0)
          ELSE ~StrLess(Lower(PrefixOf(b)), Lower(PrefixOf(a)))

ExampleOrder ==
    << << "2", "0", "2", "5", "1", "0", "3", "1" >>,
       << "2", "0", "2", "5", "1", "1", "0", "1", "_", "a" >>,
       << "B", "_", "r", "e", "p", "o", "r", "t" >>,
       << "m", "i", "s", "c" >> >>

(* C7: the found files are processed in ascending order of (rank, value):  *)
(* numeric prefixes first, compared as integers, then prefixes that start  *)
(* with a letter, compared in lower case, then the others; the four files  *)
(* of the example come out as 20251031, 20251101_a, B_report, misc.        *)
C7_FileOrder ==
    [][/\ pc = "find_pdfs" =>
            /\ \A i, j \in DOMAIN pdf_files' :
                 i < j => MayPrecede(pdf_files'[i], pdf_files'[j])
            /\ \A i, j \in DOMAIN pdf_files' :
                 i # j => pdf_files'[i] # pdf_files'[j]
            /\ Range(pdf_files') = Range(ExampleOrder) => pdf_files' = ExampleOrder
       /\ pc # "find_pdfs" => pdf_files' = pdf_files
       /\ Len(runs') > Len(runs) =>
            /\ Len(runs') = Len(runs) + 1
            /\ Len(pdf_list) = 1 \/ pdf_list = pdf_files
            /\ runs'[Len(runs')].doc = pdf_list[Len(runs')]
    ]_vars

C7_Witness ==
    /\ pdf_files = ExampleOrder
    /\ pc = "done" /\ Len(runs) = 4

(* C8: when a page of a document fails, the document counts as failed, no  *)
(* output file is stored for it, and the output files stored for earlier   *)
(* documents stay as they are.                                             *)
C8_NoPartialOutput ==
    [][(Len(runs') = Len(runs) + 1 /\ ~runs'[Len(runs')].ok) =>
           /\ output' = output
           /\ ~Written(runs'[Len(runs')].doc)
           /\ output[runs'[Len(runs')].doc] = Absent
           /\ fail_count' = fail_count + 1
           /\ success_count' = success_count
    ]_vars

C8_Witness ==
    /\ Len(runs) = 2 /\ runs[1].ok /\ ~runs[2].ok
    /\ runs[1].total_pages = 2
    /\ Written(runs[1].doc) /\ output[runs[2].doc] = Absent
    /\ fail_count = 1

\* the stripped line is accepted as a starting number
ValidStart(t) ==
    \/ t = << >>
    \/ \E k \in 1..(10 ^ MaxStartLen) : Denotes(t, k)

C10_ContinuousFailure ==
    (Processing /\ mode = "2") =>
        LET labels == Flatten(LabelsOfRuns(runs))
        IN  /\ \A i \in DOMAIN runs :
                 runs[i].start = base_start + 2 * PagesOfRuns(SubSeq(runs, 1, i - 1))
            /\ \A i \in DOMAIN runs :
                 (i > 1 /\ ~runs[i - 1].ok) => runs[i].start = runs[i - 1].start
            /\ next_number = base_start + 2 * PagesOfRuns(runs)
            /\ Len(labels) = 2 * PagesOfRuns(runs)
            /\ \A k \in DOMAIN labels : labels[k] = base_start + k - 1

C10_Witness ==
    /\ mode = "2" /\ Len(runs) = 3
    /\ runs[1].ok /\ runs[1].total_pages = 1
    /\ ~runs[2].ok
    /\ runs[3].ok /\ runs[3].total_pages = 1
    /\ runs[3].start = runs[2].start /\ runs[3].start = base_start + 2

====
